---- MODULE Spec2Model ----
(***************************************************************************)
(* The MP4 pipeline of active_particles_in_3D: generate_mp4.py and its     *)
(* copy scripts/generate_mp4.py.  One process runs main(): dependency      *)
(* check, trajectory read, geometry estimate, then the standard video and  *)
(* the tracking video (frame render loop, external encoder, cleanup).      *)
(* The file system (frame directories, output videos) outlives a process,  *)
(* so a finished process can be launched again over what it left behind.   *)
(***************************************************************************)
EXTENDS Integers, Sequences, FiniteSets, TLC

\* ------------------------------------------------------------- bounds
MaxRuns == 2
MaxFrames == 2
MaxParticles == 2
MaxLabel == 4
MaxCsvRows == 2
MaxFields == 9
MaxCoord == 1
MaxPoints == 2
MaxIds == 3
MaxDepth == 2
MaxBlocks == 3

\* ---------------------------------------------------- program constants
\* TRACK_PERCENTAGE = 0.01, as a percentage
TrackPercent == 1

Videos == {"standard", "tracking"}
Variants == {"root", "scripts"}
\* as many timestep values as frames: every order and repetition occurs
TimeValues == 0..(MaxFrames - 1)
NoIndex == 0 - 1

VARIABLES
    variant,     \* which script runs: generate_mp4.py or scripts/generate_mp4.py
    run,         \* number of the current process launch
    kaleido,     \* import kaleido succeeds
    ffmpeg,      \* shutil.which("ffmpeg") finds the encoder
    binExists,   \* INPUT_FILE exists
    csvExists,   \* INPUT_FILE with suffix .csv exists
    pc,          \* position of the process in main()
    cur,         \* the video whose generate_*_mp4 is executing
    df,          \* the DataFrame returned by read_binary_simulation
    timesteps,   \* local `timesteps` of generate_*_mp4
    idx,         \* loop index of the render loop (0-based)
    tracked,     \* local `tracked_particles` (draw order)
    particle_colors, \* local `particle_colors`: tracked identifier -> color
    dirExists,   \* per video: TEMP_FRAMES_DIR/<video> exists
    files,       \* per video: frame index -> who wrote frame_<index>.png:
                 \* "this launch" or "earlier launch"
    artifact,    \* per video: frame index -> timestep this launch rendered into it
    scene,       \* per video: frame index -> the rows and the colors this
                 \* launch handed to go.Scatter3d for that frame
    output,      \* per video: who wrote OUTPUT_DIR/particles_<video>.mp4:
                 \* "nobody", "this launch" or "earlier launch"
    encCalls,    \* per video: subprocess.run(ffmpeg) calls of this launch
    encRc,       \* per video: exit code of the last encoder call (NoIndex: none)
    encStderr,   \* stderr captured from the last failed encoder call
    call,        \* per video: generate_*_mp4 of this launch is "not called",
                 \* "running", "returned" or "raised"
    error,       \* what ended this launch abnormally: [kind, index]
    logged,      \* second logging.error line of main's except block
    ret,         \* return value of main() (NoIndex: did not return)
    exitCode,    \* exit status of the process (NoIndex: still running)
    input,       \* the argument a function of the scripts is applied to, when
                 \* that function is examined on its own (a record)
    result,      \* what the function returned or raised (a record)
    outDir,      \* the directory OUTPUT_DIR ("figures") exists
    dirMaker,    \* per video: who created the frame directory that exists
                 \* ("nobody": there is none)
    sys_stdout,  \* the object sys.stdout is bound to
    sys_stderr,  \* the object sys.stderr is bound to
    blocks,      \* the suppress_stdout_stderr() blocks that are open, outermost
                 \* first: the locals old_stdout, old_stderr, devnull of each
    opened       \* number of open(os.devnull, "w") calls so far

vars == << variant, run, kaleido, ffmpeg, binExists, csvExists, pc, cur, df,
           timesteps, idx, tracked, particle_colors, dirExists, files, artifact, scene, output,
           encCalls, encRc, encStderr, call, error, logged, ret, exitCode,
           input, result, outDir, dirMaker, sys_stdout, sys_stderr, blocks,
           opened >>

pureVars == << input, result >>
envVars == << variant, kaleido, ffmpeg, binExists, csvExists, outDir >>
fsVars == << dirExists, files, output, dirMaker >>
encVars == << encCalls, encRc, encStderr >>
streamVars == << sys_stdout, sys_stderr, blocks, opened >>
\* everything main() and the file system hold
pipelineVars ==
            << variant, run, kaleido, ffmpeg, binExists, csvExists, outDir, pc,
               cur, df,
               timesteps, idx, tracked, particle_colors, dirExists, files,
               artifact, scene, output,
               encCalls, encRc, encStderr, call, error, logged, ret, exitCode,
               dirMaker >>
mainVars == << variant, run, kaleido, ffmpeg, binExists, csvExists, outDir, pc,
               cur, df,
               timesteps, idx, tracked, particle_colors, dirExists, files, artifact, scene, output,
               encCalls, encRc, encStderr, call, error, logged, ret, exitCode,
               dirMaker, sys_stdout, sys_stderr, blocks, opened >>

\* ---------------------------------------------------------- helpers
NoError == [kind |-> "none", index |-> NoIndex]

\* a stream object: the interpreter's own stdout and stderr, another
\* writable object, or the n-th file opened on os.devnull
Stream(name, n) == [name |-> name, n |-> n]
NoColor == [hue |-> NoIndex, saturation |-> NoIndex, lightness |-> NoIndex]
Err(k) == [kind |-> k, index |-> NoIndex]
NoDF == [src |-> "none", cols |-> FALSE, rows |-> << >>]
EmptyFn == [i \in {} |-> 0]
NoLog == "<nothing logged>"
NoInput == [kind |-> "none"]
Pending == [status |-> "pending"]

Max(a, b) == IF a >= b THEN a ELSE b

SeqsUpTo(S, n) == UNION { [1..k -> S] : k \in 0..n }

Range(s) == { s[i] : i \in DOMAIN s }

\* pandas Series.unique(): the distinct values in order of first appearance
Unique(s) ==
    LET F[k \in 0..Len(s)] ==
            IF k = 0 THEN << >>
            ELSE IF s[k] \in Range(F[k - 1]) THEN F[k - 1]
                 ELSE Append(F[k - 1], s[k])
    IN F[Len(s)]

\* insertion of one value into an ascending sequence
Insert(s, x) ==
    LET n == Cardinality({ i \in DOMAIN s : s[i] <= x })
    IN [i \in 1..(Len(s) + 1) |->
            IF i <= n THEN s[i] ELSE IF i = n + 1 THEN x ELSE s[i - 1]]

\* Python sorted(): ascending
Sorted(s) ==
    LET F[k \in 0..Len(s)] ==
            IF k = 0 THEN << >> ELSE Insert(F[k - 1], s[k])
    IN F[Len(s)]

Column(rows, name) == [i \in DOMAIN rows |-> rows[i][name]]

\* variant without sorted(): the timesteps in order of first appearance
UnsortedTimesteps(d) == Unique(Column(d.rows, "time"))

\* timesteps = sorted(df["time"].unique())
SortedTimesteps(d) == Sorted(Unique(Column(d.rows, "time")))

\* the rows appended by the frame loop and the particle loop of the reader
FrameRows(np, ts) ==
    [k \in 1..(Len(ts) * np) |->
        [Particles |-> (k - 1) % np, time |-> ts[((k - 1) \div np) + 1]]]

\* pd.DataFrame(data): a DataFrame built from no rows has no columns
DecodeBinary(np, ts) ==
    LET rows == FrameRows(np, ts)
    IN [src |-> "bin", cols |-> rows # << >>, rows |-> rows]

\* pd.read_csv(filename): the header row gives the columns even with no rows
ReadCsv(np, ts) == [src |-> "csv", cols |-> TRUE, rows |-> FrameRows(np, ts)]

\* variant that prefers the CSV sibling
ResolveCsvFirst(bin, csv) ==
    IF csv THEN "csv" ELSE IF bin THEN "bin" ELSE "none"

\* which file read_binary_simulation decodes: "bin", "csv" or "none"
Resolve(bin, csv) ==
    IF bin THEN "bin" ELSE IF csv THEN "csv" ELSE "none"

\* the status the interpreter exits with once main() has returned r
ExitStatus(v, r) == IF v = "root" THEN r ELSE 0

\* num_tracked = max(1, int(len(all_particles) * TRACK_PERCENTAGE))
NumTracked(n) == Max(1, (n * TrackPercent) \div 100)

\* a choice with replace=True: any sequence of k identifiers
DrawsWithReplacement(ids, k) == [1..k -> ids]

\* np.random.choice(all_particles, size=k, replace=False): the possible draws
Draws(ids, k) ==
    { s \in [1..k -> ids] : \A i, j \in 1..k : i # j => s[i] # s[j] }

\* f"hsl({int(360 * i / num_tracked)}, 70%, 50%)" for i in range(num_tracked)
Hsl(i, num_tracked) ==
    [hue |-> (360 * i) \div num_tracked, saturation |-> 70, lightness |-> 50]

\* dict(zip(tracked_particles, colors)): a later pair replaces an earlier
\* one of the same key
ParticleColors(tracked_particles) ==
    LET k == Len(tracked_particles)
        last(p) == CHOOSE i \in 1..k :
                      /\ tracked_particles[i] = p
                      /\ \A j \in 1..k : tracked_particles[j] = p => j <= i
    IN  [p \in Range(tracked_particles) |-> Hsl(last(p) - 1, k)]

\* frame_data = df[df["time"] == timestep]
StandardFrame(d, timestep) ==
    SelectSeq(d.rows, LAMBDA r : r.time = timestep)

\* variant that keeps every row of the timestep
TrackingFrameUnfiltered(d, timestep, tracked_particles) ==
    SelectSeq(d.rows, LAMBDA r : r.time = timestep)

\* frame_data = df[(df["time"] == timestep)
\*                 & (df["Particles"].isin(tracked_particles))]
TrackingFrame(d, timestep, tracked_particles) ==
    SelectSeq(d.rows, LAMBDA r : /\ r.time = timestep
                                 /\ r.Particles \in Range(tracked_particles))

\* particle_color_list = [particle_colors[p] for p in frame_data["Particles"]]
\* (a particle without a color raises KeyError: NoColor)
ColorList(frame_data, colors) ==
    [i \in DOMAIN frame_data |->
        IF frame_data[i].Particles \in DOMAIN colors
        THEN colors[frame_data[i].Particles] ELSE NoColor]

\* a launch ended by an uncaught exception
Crash(e) ==
    /\ pc' = "crashed"
    /\ error' = e
    /\ UNCHANGED << ret, logged >>

\* ------------------------------------------------------------- state
ProcessStart ==
    /\ pc = "check"
    /\ cur = "standard"
    /\ df = NoDF
    /\ timesteps = << >>
    /\ idx = 0
    /\ tracked = << >>
    /\ particle_colors = EmptyFn
    /\ artifact = [v \in Videos |-> EmptyFn]
    /\ scene = [v \in Videos |-> EmptyFn]
    /\ encCalls = [v \in Videos |-> 0]
    /\ encRc = [v \in Videos |-> NoIndex]
    /\ encStderr = ""
    /\ call = [v \in Videos |-> "not called"]
    /\ error = NoError
    /\ logged = NoLog
    /\ ret = NoIndex
    /\ exitCode = NoIndex
    /\ sys_stdout = Stream("stdout", 0)
    /\ sys_stderr = Stream("stderr", 0)
    /\ blocks = << >>
    /\ opened = 0

Init ==
    /\ variant \in Variants
    /\ run = 1
    /\ kaleido \in BOOLEAN
    /\ ffmpeg \in BOOLEAN
    /\ binExists \in BOOLEAN
    /\ csvExists \in BOOLEAN
    /\ outDir \in BOOLEAN
    /\ dirExists = [v \in Videos |-> FALSE]
    /\ dirMaker = [v \in Videos |-> "nobody"]
    /\ files = [v \in Videos |-> EmptyFn]
    /\ output = [v \in Videos |-> "nobody"]
    /\ ProcessStart
    /\ input = NoInput
    /\ result = Pending

\* ----------------------------------------------------------- main()
\* variant that forgets the shutil.which("ffmpeg") test
MissingKaleidoOnly(k, f) ==
    IF ~k THEN "kaleido not installed" ELSE "none"

\* check_dependencies(): the message logged when a dependency is missing
MissingDependency(k, f) ==
    IF ~k THEN "kaleido not installed"
    ELSE IF ~f THEN "ffmpeg not found" ELSE "none"

\* if not check_dependencies(): return 1
CheckDependencies ==
    /\ pc = "check"
    /\ LET m == MissingDependency(kaleido, ffmpeg)
       IN IF m # "none"
          THEN /\ error' = Err(m)
               /\ ret' = 1
               /\ pc' = "returned"
          ELSE /\ pc' = "read"
               /\ UNCHANGED << error, ret >>
    /\ UNCHANGED << pureVars, streamVars, envVars, fsVars, encVars, run, cur, df, timesteps, idx,
                    tracked, particle_colors, artifact, scene, call, logged, exitCode >>

\* df = read_binary_simulation(INPUT_FILE)
ReadSimulation ==
    /\ pc = "read"
    /\ LET r == Resolve(binExists, csvExists)
       IN IF r = "none"
          THEN /\ Crash(Err("FileNotFoundError"))
               /\ UNCHANGED df
          ELSE /\ \E np \in 0..MaxParticles, ts \in SeqsUpTo(TimeValues, MaxFrames) :
                      df' = IF r = "bin" THEN DecodeBinary(np, ts)
                                         ELSE ReadCsv(np, ts)
               /\ pc' = "estimate"
               /\ UNCHANGED << error, ret, logged >>
    /\ UNCHANGED << pureVars, streamVars, envVars, fsVars, encVars, run, cur, timesteps, idx,
                    tracked, particle_colors, artifact, scene, call, exitCode >>

\* params = read_parameters() ... height_max = df["z-position"].max()
\* a DataFrame without columns raises KeyError on df["z-position"]
Estimate ==
    /\ pc = "estimate"
    /\ IF ~df.cols
       THEN Crash(Err("KeyError"))
       ELSE /\ pc' = "enter"
            /\ UNCHANGED << error, ret, logged >>
    /\ UNCHANGED << pureVars, streamVars, envVars, fsVars, encVars, run, cur, df, timesteps, idx,
                    tracked, particle_colors, artifact, scene, call, exitCode >>

\* ------------------------------------------------ generate_*_mp4(df, ...)
\* variant whose sequencing sorts the DataFrame itself by time
EnterSortsFrame(v) ==
    /\ pc = "enter"
    /\ cur = v
    /\ timesteps' = SortedTimesteps(df)
    /\ LET ts == SortedTimesteps(df)
           F[k \in 0..Len(ts)] ==
               IF k = 0 THEN << >>
               ELSE F[k - 1] \o SelectSeq(df.rows, LAMBDA r : r.time = ts[k])
       IN df' = [df EXCEPT !.rows = F[Len(ts)]]
    /\ idx' = 0
    /\ pc' = IF v = "tracking" THEN "sample" ELSE "mkdir"
    /\ call' = [call EXCEPT ![v] = "running"]
    /\ UNCHANGED << pureVars, streamVars, envVars, fsVars, encVars, run, cur, tracked, particle_colors, artifact, scene,
                    error, logged, ret, exitCode >>

\* timesteps = sorted(df["time"].unique()); num_frames = len(timesteps)
Enter(v) ==
    /\ pc = "enter"
    /\ cur = v
    /\ timesteps' = SortedTimesteps(df)
    /\ idx' = 0
    /\ pc' = IF v = "tracking" THEN "sample" ELSE "mkdir"
    /\ call' = [call EXCEPT ![v] = "running"]
    /\ UNCHANGED << pureVars, streamVars, envVars, fsVars, encVars, run, cur, df, tracked, particle_colors, artifact, scene,
                    error, logged, ret, exitCode >>

\* variant that tracks nobody when there is nobody to draw from, and goes on
SampleNobody ==
    /\ pc = "sample"
    /\ LET ids == Range(Unique(Column(df.rows, "Particles")))
       IN IF ids = {}
          THEN tracked' = << >>
          ELSE tracked' \in Draws(ids, NumTracked(Cardinality(ids)))
    /\ particle_colors' = ParticleColors(tracked')
    /\ pc' = "mkdir"
    /\ UNCHANGED << pureVars, streamVars, envVars, fsVars, encVars, run, cur, df, timesteps, idx,
                    artifact, scene, exitCode, error, ret, logged, call >>

\* all_particles, num_tracked, tracked_particles, colors (tracking only)
\* np.random.choice raises ValueError on an empty population
Sample ==
    /\ pc = "sample"
    /\ LET ids == Range(Unique(Column(df.rows, "Particles")))
       IN IF ids = {}
          THEN /\ Crash(Err("ValueError"))
               /\ call' = [call EXCEPT !["tracking"] = "raised"]
               /\ UNCHANGED << tracked, particle_colors >>
          ELSE /\ tracked' \in Draws(ids, NumTracked(Cardinality(ids)))
               /\ particle_colors' = ParticleColors(tracked')
               /\ pc' = "mkdir"
               /\ UNCHANGED << error, ret, logged, call >>
    /\ UNCHANGED << pureVars, streamVars, envVars, fsVars, encVars, run, cur, df, timesteps, idx,
                    artifact, scene, exitCode >>

\* temp_dir = Path(TEMP_FRAMES_DIR) / "standard" (or "tracking")
TempDir(v) == << "temp_frames", v >>

\* temp_dir.mkdir(parents=True, exist_ok=True): what is in it stays
MakeTempDir(v) ==
    /\ pc = "mkdir"
    /\ cur = v
    /\ dirExists' = [dirExists EXCEPT ![v] = TRUE]
    /\ dirMaker' = [dirMaker EXCEPT ![v] = IF dirExists[v] THEN @
                                           ELSE "this launch"]
    /\ pc' = "render"
    /\ UNCHANGED << pureVars, streamVars, envVars, files, output, encVars, run, cur, df, timesteps,
                    idx, tracked, particle_colors, artifact, scene, call, error, logged, ret,
                    exitCode >>

\* f with index i (over)written
Put(f, i, x) == [j \in (DOMAIN f) \cup {i} |-> IF j = i THEN x ELSE f[j]]

\* one iteration of `for idx, timestep in enumerate(timesteps)`:
\* render_*_frame writes temp_dir / frame_<idx>.png
RenderFrame(v) ==
    /\ pc = "render"
    /\ cur = v
    /\ idx < Len(timesteps)
    /\ files' = [files EXCEPT ![v] = Put(@, idx, "this launch")]
    /\ artifact' = [artifact EXCEPT ![v] = Put(@, idx, timesteps[idx + 1])]
    /\ LET frame_data ==
               IF v = "tracking"
               THEN TrackingFrame(df, timesteps[idx + 1], tracked)
               ELSE StandardFrame(df, timesteps[idx + 1])
       IN scene' = [scene EXCEPT ![v] =
              Put(@, idx, [points |-> frame_data,
                           colors |-> IF v = "tracking"
                                      THEN ColorList(frame_data, particle_colors)
                                      ELSE << >>])]
    /\ idx' = idx + 1
    /\ UNCHANGED << pureVars, streamVars, envVars, dirExists, dirMaker, output, encVars, run, pc, cur, df,
                    timesteps, tracked, particle_colors, call, error, logged, ret, exitCode >>

\* variant that removes the frame directory when a render raises
RenderFailsCleans(v) ==
    /\ pc = "render"
    /\ cur = v
    /\ idx < Len(timesteps)
    /\ \E carries \in BOOLEAN :
          Crash([kind |-> "RenderError",
                 index |-> IF carries THEN idx ELSE NoIndex])
    /\ call' = [call EXCEPT ![v] = "raised"]
    /\ dirExists' = [dirExists EXCEPT ![v] = FALSE]
    /\ dirMaker' = [dirMaker EXCEPT ![v] = "nobody"]
    /\ files' = [files EXCEPT ![v] = EmptyFn]
    /\ UNCHANGED << pureVars, streamVars, envVars, output, encVars, run, cur, df, timesteps, idx,
                    tracked, particle_colors, artifact, scene, exitCode >>

\* fig.write_image raises: nothing in generate_*_mp4 or main catches it.
\* The backend's exception may or may not name the frame path it was given.
RenderFails(v) ==
    /\ pc = "render"
    /\ cur = v
    /\ idx < Len(timesteps)
    /\ \E carries \in BOOLEAN :
          Crash([kind |-> "RenderError",
                 index |-> IF carries THEN idx ELSE NoIndex])
    /\ call' = [call EXCEPT ![v] = "raised"]
    /\ UNCHANGED << pureVars, streamVars, envVars, fsVars, encVars, run, cur, df, timesteps, idx,
                    tracked, particle_colors, artifact, scene, exitCode >>

\* variant with the encoder call inside the loop body
BuildCommandEarly(v) ==
    /\ pc = "render"
    /\ cur = v
    /\ pc' = "encode"
    /\ UNCHANGED << pureVars, streamVars, envVars, fsVars, encVars, run, cur, df, timesteps, idx,
                    tracked, particle_colors, artifact, scene, call, error, logged, ret, exitCode >>

\* the loop is over: output_mp4 and cmd are built
BuildCommand(v) ==
    /\ pc = "render"
    /\ cur = v
    /\ idx = Len(timesteps)
    /\ pc' = "encode"
    /\ UNCHANGED << pureVars, streamVars, envVars, fsVars, encVars, run, cur, df, timesteps, idx,
                    tracked, particle_colors, artifact, scene, call, error, logged, ret, exitCode >>

\* the frames ffmpeg reads through frame_%04d.png: 0, 1, ... while present
Consecutive(f) ==
    LET n == Cardinality({ i \in DOMAIN f : \A j \in 0..i : j \in DOMAIN f })
    IN [i \in 1..n |-> f[i - 1]]

\* subprocess.run(cmd, check=True, capture_output=True), ffmpeg exits 0:
\* it has a first frame to read and a directory to write output_mp4 into
\* (no script of the MP4 pipeline creates OUTPUT_DIR, ffmpeg does not either)
EncodeOk(v) ==
    /\ pc = "encode"
    /\ cur = v
    /\ Consecutive(files[v]) # << >>
    /\ outDir
    /\ encCalls' = [encCalls EXCEPT ![v] = @ + 1]
    /\ encRc' = [encRc EXCEPT ![v] = 0]
    /\ output' = [output EXCEPT ![v] = "this launch"]
    /\ pc' = "cleanup"
    /\ UNCHANGED << pureVars, streamVars, envVars, dirExists, dirMaker, files, encStderr, run, cur, df,
                    timesteps, idx, tracked, particle_colors, artifact, scene, call, error, logged,
                    ret, exitCode >>

\* logging.error(e.stderr.decode() if e.stderr else "")
Surface(stderr) == stderr

\* except subprocess.CalledProcessError as e: log it, return 1
OnCalledProcessError(stderr) ==
    /\ error' = Err("CalledProcessError")
    /\ logged' = Surface(stderr)
    /\ ret' = 1
    /\ pc' = "returned"

\* variant whose encoder failure is swallowed: the cleanup still runs
EncodeFailsGoesOn(v) ==
    /\ pc = "encode"
    /\ cur = v
    /\ encCalls' = [encCalls EXCEPT ![v] = @ + 1]
    /\ encRc' = [encRc EXCEPT ![v] = 1]
    /\ \E msg \in {"", "ffmpeg: error"} :
          /\ encStderr' = msg
          /\ error' = Err("CalledProcessError")
          /\ logged' = Surface(msg)
    /\ call' = [call EXCEPT ![v] = "raised"]
    /\ pc' = "cleanup"
    /\ UNCHANGED << pureVars, streamVars, envVars, fsVars, run, cur, df, timesteps, idx, tracked, particle_colors,
                    artifact, scene, ret, exitCode >>

\* variant with the rmtree in a finally clause: the frames go on failure too
EncodeFailsFinally(v) ==
    /\ pc = "encode"
    /\ cur = v
    /\ encCalls' = [encCalls EXCEPT ![v] = @ + 1]
    /\ encRc' = [encRc EXCEPT ![v] = 1]
    /\ \E msg \in {"", "ffmpeg: error"} :
          /\ encStderr' = msg
          /\ OnCalledProcessError(msg)
    /\ call' = [call EXCEPT ![v] = "raised"]
    /\ dirExists' = [dirExists EXCEPT ![v] = FALSE]
    /\ dirMaker' = [dirMaker EXCEPT ![v] = "nobody"]
    /\ files' = [files EXCEPT ![v] = EmptyFn]
    /\ UNCHANGED << pureVars, streamVars, envVars, output, run, cur, df, timesteps, idx, tracked, particle_colors,
                    artifact, scene, exitCode >>

\* subprocess.run(..., check=True): ffmpeg exits non-zero, CalledProcessError
\* propagates out of generate_*_mp4 into main's except block
EncodeFails(v) ==
    /\ pc = "encode"
    /\ cur = v
    /\ encCalls' = [encCalls EXCEPT ![v] = @ + 1]
    /\ encRc' = [encRc EXCEPT ![v] = 1]
    /\ \E msg \in {"", "ffmpeg: error"} :
          /\ encStderr' = msg
          /\ OnCalledProcessError(msg)
    /\ call' = [call EXCEPT ![v] = "raised"]
    /\ UNCHANGED << pureVars, streamVars, envVars, fsVars, run, cur, df, timesteps, idx, tracked, particle_colors,
                    artifact, scene, exitCode >>

\* shutil.rmtree(temp_dir), generate_*_mp4 returns; main goes on to the
\* tracking video after the standard one
Cleanup(v) ==
    /\ pc = "cleanup"
    /\ cur = v
    /\ dirExists' = [dirExists EXCEPT ![v] = FALSE]
    /\ dirMaker' = [dirMaker EXCEPT ![v] = "nobody"]
    /\ files' = [files EXCEPT ![v] = EmptyFn]
    /\ call' = [call EXCEPT ![v] = "returned"]
    /\ IF v = "standard"
       THEN /\ cur' = "tracking"
            /\ pc' = "enter"
       ELSE /\ pc' = "complete"
            /\ UNCHANGED cur
    /\ UNCHANGED << pureVars, streamVars, envVars, output, encVars, run, df, timesteps, idx, tracked, particle_colors,
                    artifact, scene, error, logged, ret, exitCode >>

\* "MP4 generation complete!"; return 0
Complete ==
    /\ pc = "complete"
    /\ ret' = 0
    /\ pc' = "returned"
    /\ UNCHANGED << pureVars, streamVars, envVars, fsVars, encVars, run, cur, df, timesteps, idx,
                    tracked, particle_colors, artifact, scene, call, error, logged, exitCode >>

\* ------------------------------------------------------ process end
\* if __name__ == "__main__": exit(main())   (scripts/: main())
ExitReturned ==
    /\ pc = "returned"
    /\ exitCode' = ExitStatus(variant, ret)
    /\ pc' = "exited"
    /\ UNCHANGED << pureVars, streamVars, envVars, fsVars, encVars, run, cur, df, timesteps, idx,
                    tracked, particle_colors, artifact, scene, call, error, logged, ret >>

\* an uncaught exception: traceback, exit status 1
ExitCrashed ==
    /\ pc = "crashed"
    /\ exitCode' = 1
    /\ pc' = "exited"
    /\ UNCHANGED << pureVars, streamVars, envVars, fsVars, encVars, run, cur, df, timesteps, idx,
                    tracked, particle_colors, artifact, scene, call, error, logged, ret >>

\* what the last launch wrote is, for the next one, written by an earlier launch
Aged(f) == [i \in DOMAIN f |-> "earlier launch"]

\* the script is started again; the file system is as the last launch left it
Relaunch ==
    /\ pc = "exited"
    /\ run < MaxRuns
    /\ run' = run + 1
    /\ kaleido' \in BOOLEAN
    /\ ffmpeg' \in BOOLEAN
    /\ binExists' \in BOOLEAN
    /\ csvExists' \in BOOLEAN
    /\ pc' = "check"
    /\ cur' = "standard"
    /\ df' = NoDF
    /\ timesteps' = << >>
    /\ idx' = 0
    /\ tracked' = << >>
    /\ particle_colors' = EmptyFn
    /\ artifact' = [v \in Videos |-> EmptyFn]
    /\ scene' = [v \in Videos |-> EmptyFn]
    /\ encCalls' = [v \in Videos |-> 0]
    /\ encRc' = [v \in Videos |-> NoIndex]
    /\ encStderr' = ""
    /\ call' = [v \in Videos |-> "not called"]
    /\ error' = NoError
    /\ logged' = NoLog
    /\ ret' = NoIndex
    /\ exitCode' = NoIndex
    /\ files' = [v \in Videos |-> Aged(files[v])]
    /\ output' = [v \in Videos |->
                      IF output[v] = "nobody" THEN "nobody" ELSE "earlier launch"]
    /\ dirMaker' = [v \in Videos |->
                      IF dirMaker[v] = "nobody" THEN "nobody" ELSE "earlier launch"]
    /\ UNCHANGED << pureVars, streamVars, variant, dirExists, outDir >>

Next ==
    \/ CheckDependencies
    \/ ReadSimulation
    \/ Estimate
    \/ \E v \in Videos : Enter(v)
    \/ Sample
    \/ \E v \in Videos : MakeTempDir(v)
    \/ \E v \in Videos : RenderFrame(v)
    \/ \E v \in Videos : RenderFails(v)
    \/ \E v \in Videos : BuildCommand(v)
    \/ \E v \in Videos : EncodeOk(v)
    \/ \E v \in Videos : EncodeFails(v)
    \/ \E v \in Videos : Cleanup(v)
    \/ Complete
    \/ ExitReturned
    \/ ExitCrashed
    \/ Relaunch

Spec == Init /\ [][Next]_vars

\* ============================================ functions taken on their own
\* main() at rest: what the pipeline variables hold while one function of the
\* scripts is applied to an argument drawn from a bounded set
Idle ==
    /\ variant = "root"
    /\ run = 1
    /\ kaleido = TRUE
    /\ ffmpeg = TRUE
    /\ binExists = TRUE
    /\ csvExists = FALSE
    /\ outDir = TRUE
    /\ dirExists = [v \in Videos |-> FALSE]
    /\ dirMaker = [v \in Videos |-> "nobody"]
    /\ files = [v \in Videos |-> EmptyFn]
    /\ output = [v \in Videos |-> "nobody"]
    /\ ProcessStart

Min(a, b) == IF a <= b THEN a ELSE b

\* ------------------------------------------ read_binary_simulation(filename)
\* A binary file is the sequence of its items in file order.  np.fromfile
\* drops a last item that is cut in the middle, so a file cut anywhere reads
\* as the file cut at the item boundary before.
Arrays == << "x-position", "y-position", "z-position",
             "ex-orientation", "ey-orientation", "ez-orientation" >>
Columns == {"Particles", "time"} \cup Range(Arrays)

\* the value the writer stored for array k of particle p in frame f (both
\* from 0): one tag per place, so a value read into another place shows
Val(f, p, k) == 100 * (f + 1) + 10 * p + k

\* a trajectory as the simulation holds it: particle count and the timestep
\* of each frame
Trajectories ==
    { [np |-> n, ts |-> t] : n \in 0..MaxParticles,
                             t \in SeqsUpTo(TimeValues, MaxFrames) }

\* the binary layout: int32 particle count, int32 frame count, then per frame
\* int32 timestep and the arrays x, y, z, ex, ey, ez of float64
Encode(t) ==
    LET per == 1 + 6 * t.np
        item(i) ==
            IF i = 1 THEN t.np
            ELSE IF i = 2 THEN Len(t.ts)
            ELSE LET j == i - 3
                     f == j \div per
                     r == j % per
                 IN  IF r = 0 THEN t.ts[f + 1]
                     ELSE Val(f, (r - 1) % t.np, ((r - 1) \div t.np) + 1)
    IN  [i \in 1..(2 + Len(t.ts) * per) |-> item(i)]

\* np.fromfile(f, count=c) with pos items already consumed: a short read is
\* no error, a negative count reads all that is left
Delivered(s, pos, c) ==
    IF c < 0 THEN Len(s) - pos ELSE Min(c, Len(s) - pos)

FromFile(s, pos, c) == SubSeq(s, pos + 1, pos + Delivered(s, pos, c))

\* items consumed before array k of a frame whose timestep sits after pos
RECURSIVE ArrayStart(_, _, _, _)
ArrayStart(s, pos, c, k) ==
    IF k = 1 THEN pos + 1
    ELSE LET before == ArrayStart(s, pos, c, k - 1)
         IN  before + Delivered(s, before, c)

\* x[particle_id] on an array of n items with particle_id >= n, or
\* np.fromfile(...)[0] on an empty read
IndexError(i, n) ==
    [status |-> "raised", kind |-> "IndexError", index |-> i, size |-> n]

Returned(rows) ==
    [status |-> "ok",
     df |-> [src |-> "bin", cols |-> rows # << >>, rows |-> rows]]

\* a reader that takes the third array for y and the second for z
ReadOrderSwapped == << "x-position", "z-position", "y-position",
                       "ex-orientation", "ey-orientation", "ez-orientation" >>

\* the column each of the six reads of a frame lands in, in read order
ReadOrder == << "x-position", "y-position", "z-position",
                "ex-orientation", "ey-orientation", "ez-orientation" >>

\* one pass of the frame loop: the timestep, the six arrays, then one row per
\* particle; the first index that is out of range raises
ReadFrame(s, pos, np) ==
    LET head == FromFile(s, pos, 1)
        arr(k) == FromFile(s, ArrayStart(s, pos, np, k), np)
        short == { pk \in (0..(np - 1)) \X (1..6) : pk[1] >= Len(arr(pk[2])) }
        first == CHOOSE pk \in short :
                     \A o \in short : \/ pk[1] < o[1]
                                      \/ pk[1] = o[1] /\ pk[2] <= o[2]
        row(p) == [c \in Columns |->
                      IF c = "Particles" THEN p
                      ELSE IF c = "time" THEN head[1]
                      ELSE arr(CHOOSE k \in 1..6 : ReadOrder[k] = c)[p + 1]]
    IN  IF head = << >>
        THEN [raised |-> TRUE, error |-> IndexError(0, 0)]
        ELSE IF short # {}
        THEN [raised |-> TRUE,
              error |-> IndexError(first[1], Len(arr(first[2])))]
        ELSE [raised |-> FALSE,
              rows |-> [i \in 1..np |-> row(i - 1)],
              next |-> ArrayStart(s, pos, np, 7)]

\* for frame_idx in range(num_frames), then pd.DataFrame(data)
RECURSIVE ReadFrames(_, _, _, _, _)
ReadFrames(s, pos, np, left, data) ==
    IF left <= 0 THEN Returned(data)
    ELSE LET fr == ReadFrame(s, pos, np)
         IN  IF fr.raised THEN fr.error
             ELSE ReadFrames(s, fr.next, np, left - 1, data \o fr.rows)

\* the two header reads, each indexed [0], then the frame loop
read_binary_simulation(s) ==
    LET num_particles == FromFile(s, 0, 1)
        num_frames == FromFile(s, 1, 1)
    IN  IF num_particles = << >> \/ num_frames = << >>
        THEN IndexError(0, 0)
        ELSE ReadFrames(s, 2, num_particles[1], num_frames[1], << >>)

\* a file whose header was written with other counts
WithHeader(s, np, nf) ==
    [i \in DOMAIN s |-> IF i = 1 THEN np ELSE IF i = 2 THEN nf ELSE s[i]]

\* the files on disk: a written trajectory, whole or cut after any item, its
\* header as written or holding a negative count
BinaryFiles ==
    UNION { { [kind |-> "binary", written |-> t,
               stream |-> SubSeq(WithHeader(Encode(t), hp, hf), 1, n)] :
              hp \in {t.np, NoIndex}, hf \in {Len(t.ts), NoIndex},
              n \in 0..Len(Encode(t)) } : t \in Trajectories }

ReadBinary ==
    /\ input.kind = "binary"
    /\ result = Pending
    /\ result' = read_binary_simulation(input.stream)
    /\ UNCHANGED << input, mainVars >>

\* --------------------------------------------- read_csv_simulation(filename)
\* The "Particles" column of a CSV file, one cell per row; a cell is the
\* sequence of its characters.
Chars == {"p", "1"}
Digits == {"0", "1", "2", "3", "4", "5", "6", "7", "8", "9"}
Labels == UNION { [1..k -> Chars] : k \in 1..MaxLabel }

DigitValue(c) ==
    CASE c = "0" -> 0 [] c = "1" -> 1 [] c = "2" -> 2 [] c = "3" -> 3
      [] c = "4" -> 4 [] c = "5" -> 5 [] c = "6" -> 6 [] c = "7" -> 7
      [] c = "8" -> 8 [] c = "9" -> 9

\* int(text) of a run of digits
RECURSIVE Decimal(_)
Decimal(s) ==
    IF s = << >> THEN 0
    ELSE 10 * Decimal(SubSeq(s, 1, Len(s) - 1)) + DigitValue(s[Len(s)])

\* pd.read_csv types the column int64 when every cell is an integer and
\* object (text) otherwise
IsObject(cells) ==
    \E i \in DOMAIN cells : \E j \in DOMAIN cells[i] : cells[i][j] \notin Digits

\* the longest run of digits of label that starts at a
RunFrom(label, a) ==
    LET ends == { b \in a..Len(label) :
                    \A i \in a..b : label[i] \in Digits }
    IN  SubSeq(label, a, CHOOSE b \in ends : \A o \in ends : o <= b)

\* Series.str.extract(r"(\d+)"): the leftmost run of digits, NaN when the
\* label has no digit
Extract(label) ==
    LET at == { i \in DOMAIN label : label[i] \in Digits }
    IN  IF at = {} THEN [found |-> FALSE, text |-> << >>]
        ELSE [found |-> TRUE,
              text |-> RunFrom(label, CHOOSE a \in at : \A o \in at : a <= o)]

\* .astype(int) on a column that holds NaN
ValueError == [status |-> "raised", kind |-> "ValueError"]

CsvFrame(ids) ==
    [status |-> "ok",
     df |-> [src |-> "csv", cols |-> TRUE,
             rows |-> [i \in DOMAIN ids |-> [Particles |-> ids[i], time |-> 0]]]]

read_csv_simulation(cells) ==
    IF IsObject(cells)
    THEN IF \E i \in DOMAIN cells : ~Extract(cells[i]).found
         THEN ValueError
         ELSE CsvFrame([i \in DOMAIN cells |-> Decimal(Extract(cells[i]).text)])
    ELSE CsvFrame([i \in DOMAIN cells |-> Decimal(cells[i])])

CsvFiles ==
    { [kind |-> "csv", cells |-> c] : c \in SeqsUpTo(Labels, MaxCsvRows) }

ReadCsvFile ==
    /\ input.kind = "csv"
    /\ result = Pending
    /\ result' = read_csv_simulation(input.cells)
    /\ UNCHANGED << input, mainVars >>

\* ------------------------------------------------- the readers on their own
InitReader ==
    /\ input \in BinaryFiles \cup CsvFiles
    /\ result = Pending
    /\ Idle

NextReader ==
    \/ ReadBinary
    \/ ReadCsvFile

SpecReader == InitReader /\ [][NextReader]_vars

\* ------------------------------------------------------- read_parameters()
\* The first line of data/parameter.txt as its tab-separated fields.  A field
\* is empty, a word, or the numeral of its own index (from 0), so that the
\* field a value was taken from shows in the value.  Stripping moves a field
\* to a lower index only, so fields 0..5 are never parsed: of them only
\* whether they are empty is drawn.
FieldKinds == {"empty", "word", "numeral"}
Field(kind, i) == [chars |-> kind, value |-> IF kind = "numeral" THEN i ELSE NoIndex]
Shapes(k) ==
    { g \in [1..k -> FieldKinds] : \A i \in 1..Min(k, 6) : g[i] # "numeral" }
Lines ==
    UNION { { [i \in 1..k |-> Field(g[i], i - 1)] : g \in Shapes(k) } :
            k \in 1..MaxFields }
ParameterFiles ==
    { [exists |-> FALSE, line |-> << >>] }
        \cup { [exists |-> TRUE, line |-> l] : l \in Lines }

\* line.strip().split("\t"): strip() takes the tabs of leading and trailing
\* empty fields away with the newline; "".split("\t") is [""]
StripSplit(line) ==
    LET kept == { i \in DOMAIN line : line[i].chars # "empty" }
    IN  IF kept = {} THEN << Field("empty", 0) >>
        ELSE SubSeq(line, CHOOSE a \in kept : \A o \in kept : a <= o,
                          CHOOSE b \in kept : \A o \in kept : o <= b)

\* split("\t") of the line as it stands in the file
SplitOnly(line) == line

None == [given |-> FALSE, Wall |-> NoIndex, height |-> NoIndex]

\* open(), params[6], params[7] and float() all sit in one try block whose
\* except Exception logs a warning and returns None
read_parameters(file) ==
    IF ~file.exists THEN None
    ELSE LET params == StripSplit(file.line)
         IN  IF Len(params) < 7 \/ params[7].chars # "numeral" THEN None
             ELSE IF Len(params) < 8 \/ params[8].chars # "numeral" THEN None
             ELSE [given |-> TRUE, Wall |-> params[7].value,
                   height |-> params[8].value]

\* ------------------------------------------ main(): cylinder dimensions
Scripts == {"generate_mp4.py", "scripts/generate_mp4.py", "generate_video.py"}

\* the positions of a trajectory: at least one row, coordinates are integers
Points ==
    { [x |-> a, y |-> b, z |-> c] :
        a \in (0 - MaxCoord)..MaxCoord, b \in (0 - MaxCoord)..MaxCoord,
        c \in {0, MaxCoord} }

Abs(a) == IF a < 0 THEN 0 - a ELSE a
MaxOf(S) == CHOOSE m \in S : \A o \in S : o <= m
MinOf(S) == CHOOSE m \in S : \A o \in S : m <= o

\* A radius is held as one hundred times its square, which is exact for
\* 1.1 * m and for 1.1 * sqrt(s) alike and orders radii as they are ordered.
FromValue(r) == 100 * r * r

\* max(df["x-position"].abs().max(), df["y-position"].abs().max()) * 1.1
BoxRadius(points) ==
    LET m == Max(MaxOf({ Abs(p.x) : p \in points }),
                 MaxOf({ Abs(p.y) : p \in points }))
    IN  121 * m * m

\* np.sqrt((df["x-position"] ** 2 + df["y-position"] ** 2).max()) * 1.1
RadialRadius(points) == 121 * MaxOf({ p.x * p.x + p.y * p.y : p \in points })

DataRadius(script, points) ==
    IF script = "generate_video.py" THEN RadialRadius(points)
    ELSE BoxRadius(points)

\* variant in which every script takes the vertical bounds from a valid
\* parameter file
DimensionsSymmetric(script, params, points) ==
    LET min_z == MinOf({ p.z : p \in points })
        max_z == MaxOf({ p.z : p \in points })
    IN  [status |-> "ok",
         from |-> IF params.given THEN "parameters" ELSE "data",
         warned |-> ~params.given,
         Wall |-> IF params.given THEN FromValue(params.Wall)
                  ELSE DataRadius(script, points),
         height_min |-> IF params.given THEN 0 - params.height ELSE min_z,
         height_max |-> IF params.given THEN params.height ELSE max_z]

\* the block of main() between read_parameters() and the first video
Dimensions(script, params, points) ==
    LET min_z == MinOf({ p.z : p \in points })
        max_z == MaxOf({ p.z : p \in points })
    IN  [status |-> "ok",
         from |-> IF params.given THEN "parameters" ELSE "data",
         warned |-> ~params.given,
         Wall |-> IF params.given THEN FromValue(params.Wall)
                  ELSE DataRadius(script, points),
         height_min |-> IF params.given /\ script = "generate_video.py"
                        THEN 0 - params.height ELSE min_z,
         height_max |-> IF params.given /\ script = "generate_video.py"
                        THEN params.height ELSE max_z]

\* a parameter file that is read is examined over these two trajectories
Reference ==
    { { [x |-> 0 - MaxCoord, y |-> 0, z |-> 0] },
      { [x |-> 1, y |-> MaxCoord, z |-> MaxCoord], [x |-> 0, y |-> 0, z |-> 0] } }

Missing == [exists |-> FALSE, line |-> << >>]

GeometryInput(s, f, p) ==
    [kind |-> "geometry", script |-> s, file |-> f, points |-> p]

EstimateGeometry ==
    /\ input.kind = "geometry"
    /\ result = Pending
    /\ result' = Dimensions(input.script, read_parameters(input.file),
                            input.points)
    /\ UNCHANGED << input, mainVars >>

\* without a parameter file the trajectory is any 1..MaxPoints points
InitGeometry ==
    /\ \/ \E s \in Scripts, f \in ParameterFiles, p \in Reference :
              input = GeometryInput(s, f, p)
       \/ \E s \in Scripts, g \in [1..MaxPoints -> Points] :
              input = GeometryInput(s, Missing, { g[i] : i \in 1..MaxPoints })
    /\ result = Pending
    /\ Idle

NextGeometry == EstimateGeometry

SpecGeometry == InitGeometry /\ [][NextGeometry]_vars

\* ------------------------------- generate_tracking_mp4: the tracked particles
\* The population is the identifiers 0..n-1; the fraction is a whole
\* percentage, written pct for the double pct/100.
Percents == 1..100
SmallPopulations == 1..MaxIds
LargePopulations == {100, 361}
all_particles(n) == 0..(n - 1)

\* len(all_particles) * TRACK_PERCENTAGE is a product of doubles, rounded
\* before int() truncates it.  Over the populations 1..12, 100, 361 and 10000
\* and the percentages 1..100 the rounded product lies below a whole exact
\* product at these places, and on the same side of every whole number as
\* the exact product everywhere else.
RoundedBelow ==
    { << 100, 29 >>, << 100, 57 >>, << 100, 58 >>,
      << 10000, 57 >>, << 10000, 69 >> }

IntOfProduct(n, pct) ==
    IF << n, pct >> \in RoundedBelow THEN ((n * pct) \div 100) - 1
    ELSE (n * pct) \div 100

\* num_tracked = max(1, int(len(all_particles) * TRACK_PERCENTAGE))
NumTrackedAt(n, pct) == Max(1, IntOfProduct(n, pct))

\* the draws followed for a large population: runs of consecutive
\* identifiers from a few starting points
Runs(n, k) ==
    { [i \in 1..k |-> (a + i - 1) % n] : a \in 0..MaxIds }

DrawsOf(n, k) ==
    IF n \in SmallPopulations THEN Draws(all_particles(n), k) ELSE Runs(n, k)

\* every percentage over the small and the large populations, and the
\* percentage of the scripts over 10000 identifiers
SampleInputs ==
    { [kind |-> "sample", n |-> n, pct |-> pct] :
        n \in SmallPopulations \cup LargePopulations, pct \in Percents }
      \cup { [kind |-> "sample", n |-> 10000, pct |-> TrackPercent] }

SampleTracked ==
    /\ input.kind = "sample"
    /\ result = Pending
    /\ \E draw \in DrawsOf(input.n, NumTrackedAt(input.n, input.pct)) :
          result' = [status |-> "ok",
                     num_tracked |-> NumTrackedAt(input.n, input.pct),
                     tracked_particles |-> draw,
                     particle_colors |-> ParticleColors(draw)]
    /\ UNCHANGED << input, mainVars >>

InitSampler ==
    /\ input \in SampleInputs
    /\ result = Pending
    /\ Idle

NextSampler == SampleTracked

SpecSampler == InitSampler /\ [][NextSampler]_vars

\* ------------------------- suppress_stdout_stderr() (scripts/generate_mp4.py)
\* The blocks `with suppress_stdout_stderr():` of a program, nested or one
\* after the other; result holds whether an exception is propagating and the
\* nesting depth at which it was raised.
Original == << Stream("stdout", 0), Stream("stderr", 0) >>
Other == Stream("other", 0)
Devnull(n) == Stream("devnull", n)
Raising(depth) == [status |-> "raising", depth |-> depth]

\* with open(os.devnull, "w") as devnull: old_stdout = sys.stdout;
\* old_stderr = sys.stderr; sys.stdout = devnull; sys.stderr = devnull; yield
EnterBlock ==
    /\ input.kind = "streams"
    /\ result = Pending
    /\ Len(blocks) < MaxDepth
    /\ opened < MaxBlocks
    /\ opened' = opened + 1
    /\ blocks' = Append(blocks, [old_stdout |-> sys_stdout,
                                 old_stderr |-> sys_stderr,
                                 devnull |-> opened + 1])
    /\ sys_stdout' = Devnull(opened + 1)
    /\ sys_stderr' = Devnull(opened + 1)
    /\ UNCHANGED << input, result, pipelineVars >>

\* the wrapped code binds sys.stdout or sys.stderr to another object
Rebind ==
    /\ input.kind = "streams"
    /\ result = Pending
    /\ blocks # << >>
    /\ \/ sys_stdout' = Other /\ UNCHANGED sys_stderr
       \/ sys_stderr' = Other /\ UNCHANGED sys_stdout
    /\ UNCHANGED << input, result, blocks, opened, pipelineVars >>

\* the wrapped code raises
Raise ==
    /\ input.kind = "streams"
    /\ result = Pending
    /\ blocks # << >>
    /\ result' = Raising(Len(blocks))
    /\ UNCHANGED << input, streamVars, pipelineVars >>

\* finally: sys.stdout = old_stdout; sys.stderr = old_stderr
Restore(block) ==
    /\ sys_stdout' = block.old_stdout
    /\ sys_stderr' = block.old_stderr

\* variant without try/finally: the lines after yield are not reached when
\* the wrapped code raises
ExitRaisedNoFinally ==
    /\ input.kind = "streams"
    /\ result # Pending
    /\ blocks # << >>
    /\ blocks' = SubSeq(blocks, 1, Len(blocks) - 1)
    /\ UNCHANGED << sys_stdout, sys_stderr >>
    /\ UNCHANGED << input, result, opened, pipelineVars >>

\* the wrapped code completes: the generator resumes after yield
ExitNormal ==
    /\ input.kind = "streams"
    /\ result = Pending
    /\ blocks # << >>
    /\ Restore(blocks[Len(blocks)])
    /\ blocks' = SubSeq(blocks, 1, Len(blocks) - 1)
    /\ UNCHANGED << input, result, opened, pipelineVars >>

\* the exception is thrown into the generator at yield and leaves the block
ExitRaised ==
    /\ input.kind = "streams"
    /\ result # Pending
    /\ blocks # << >>
    /\ Restore(blocks[Len(blocks)])
    /\ blocks' = SubSeq(blocks, 1, Len(blocks) - 1)
    /\ UNCHANGED << input, result, opened, pipelineVars >>

\* an except clause of the surrounding code handles the exception
Handled ==
    /\ input.kind = "streams"
    /\ result # Pending
    /\ result' = Pending
    /\ UNCHANGED << input, streamVars, pipelineVars >>

InitStreams ==
    /\ input = [kind |-> "streams"]
    /\ result = Pending
    /\ Idle

NextStreams ==
    \/ EnterBlock
    \/ Rebind
    \/ Raise
    \/ ExitNormal
    \/ ExitRaised
    \/ Handled

SpecStreams == InitStreams /\ [][NextStreams]_vars

\* =============================================================== claims
\* Vocabulary of the claims, stated over the state above.
\* the distinct timesteps of the DataFrame, as a set
DistinctTimes == { df.rows[i].time : i \in DOMAIN df.rows }

\* the frames this launch rendered for v are all in v's directory
OwnFramesPresent(v) ==
    \A i \in DOMAIN artifact[v] : i \in DOMAIN files[v] /\ files[v][i] = "this launch"

EncoderFailed(v) == encRc[v] \notin {NoIndex, 0}

\* C1: whenever the encoder exits non-zero for a video, that video's frame
\* directory and every frame this launch wrote into it still exist (up to and
\* after the end of the process), the captured stderr is what main logs, and
\* main returns 1.
C1_EncoderFailureKeepsFrames ==
    \A v \in Videos :
        EncoderFailed(v) =>
            /\ dirExists[v]
            /\ OwnFramesPresent(v)
            /\ logged = encStderr
            /\ error.kind = "CalledProcessError"
            /\ ret = 1

C1_Witness ==
    /\ pc = "exited"
    /\ EncoderFailed("tracking")
    /\ encStderr # ""
    /\ Cardinality(DOMAIN artifact["tracking"]) >= 2
    /\ call["standard"] = "returned"

\* C2: a video's frame directory is deleted only by the cleanup step that
\* follows an encoder exit code 0, after which generate_*_mp4 has returned;
\* a generation that returned had exit code 0 and left no directory; no
\* render failure and no encoder failure deletes it.
C2_DeletedOnlyOnSuccess ==
    /\ [](\A v \in Videos :
            /\ call[v] = "returned" =>
                  encRc[v] = 0 /\ ~dirExists[v] /\ files[v] = EmptyFn
            /\ encRc[v] = 0 => (pc = "cleanup" /\ cur = v) \/ call[v] = "returned")
    /\ [][\A v \in Videos :
            dirExists[v] /\ ~dirExists'[v] =>
                /\ pc = "cleanup" /\ cur = v
                /\ encRc[v] = 0
                /\ call'[v] = "returned"]_vars

C2_Witness ==
    /\ pc = "enter"
    /\ cur = "tracking"
    /\ call["standard"] = "returned"
    /\ encRc["standard"] = 0
    /\ ~dirExists["standard"]
    /\ DOMAIN artifact["standard"] = 0..1

\* C3: per launch the encoder is invoked at most once for a video, and at the
\* moment it is invoked a frame written by this launch exists for every
\* sequential index (one per distinct timestep); after a render failure the
\* encoder has not been invoked for that video; a video is written only by
\* that one invocation.
C3_EncoderOnceAfterAllFrames ==
    /\ [](\A v \in Videos :
            /\ encCalls[v] <= 1
            /\ encCalls[v] = 1 =>
                  DOMAIN artifact[v] = 0..(Cardinality(DistinctTimes) - 1)
            /\ (error.kind = "RenderError" /\ call[v] = "raised") =>
                  encCalls[v] = 0
            /\ encRc[v] = 0 => output[v] = "this launch")
    /\ [][\A v \in Videos :
            encCalls'[v] > encCalls[v] =>
                \A i \in 0..(Cardinality(DistinctTimes) - 1) :
                    i \in DOMAIN files[v] /\ files[v][i] = "this launch"]_vars

C3_Witness ==
    /\ pc = "cleanup"
    /\ cur = "tracking"
    /\ encCalls["tracking"] = 1
    /\ Cardinality(DistinctTimes) = 2

\* The stage of video v's generation, read off the position of the process.
\* A stage is named after its effect: Sampling is the random draw, Rendering
\* the frame directory and its frames, Encoding the encoder call, Cleanup the
\* rmtree.  Until its generate_*_mp4 draws or creates the directory, a video
\* stays in Estimating; a launch that ends without having produced the video
\* leaves it Failed.
Stage(v) ==
    IF call[v] = "returned" THEN "Done"
    ELSE IF pc \in {"crashed", "returned", "exited"} THEN "Failed"
    ELSE IF pc = "check" THEN "Idle"
    ELSE IF pc = "read" THEN "Reading"
    ELSE IF pc = "estimate" \/ pc = "enter" \/ cur # v THEN "Estimating"
    ELSE IF pc = "sample" THEN "Sampling"
    ELSE IF pc = "mkdir" \/ pc = "render" THEN "Rendering"
    ELSE IF pc = "encode" THEN "Encoding"
    ELSE "Cleanup"

\* the stage that follows s in the order of video v
NextStage(v, s) ==
    CASE s = "Idle" -> "Reading"
      [] s = "Reading" -> "Estimating"
      [] s = "Estimating" -> IF v = "tracking" THEN "Sampling" ELSE "Rendering"
      [] s = "Sampling" -> "Rendering"
      [] s = "Rendering" -> "Encoding"
      [] s = "Encoding" -> "Cleanup"
      [] s = "Cleanup" -> "Done"
      [] OTHER -> s

\* C4: within one launch every video's stage only ever moves to the next
\* stage of Idle, Reading, Estimating, Sampling (tracking only), Rendering,
\* Encoding, Cleanup, Done, or to Failed; Failed carries the error that
\* caused it and is left by no later stage of the launch.
C4_StageOrder ==
    /\ [](\A v \in Videos :
            /\ Stage(v) = "Failed" => error # NoError
            /\ error # NoError => Stage(v) \in {"Failed", "Done"}
            /\ Stage(v) = "Sampling" => v = "tracking")
    /\ [][\A v \in Videos :
            (run' = run /\ Stage(v)' # Stage(v)) =>
                /\ Stage(v) \notin {"Failed", "Done"}
                /\ Stage(v)' \in {NextStage(v, Stage(v)), "Failed"}]_vars

C4_Witness ==
    /\ pc = "exited"
    /\ Stage("standard") = "Done"
    /\ Stage("tracking") = "Failed"
    /\ error.kind = "RenderError"
    /\ idx = 1

\* C5: a launch in which one video's generation raised (render or encoder
\* failure) has still called the other video's generation by the time the
\* process has exited.
C5_OtherVideoStillAttempted ==
    \A v, w \in Videos :
        (/\ pc = "exited"
         /\ v # w
         /\ call[v] = "raised"
         /\ error.kind \in {"RenderError", "CalledProcessError"})
            => call[w] # "not called"

\* C6: the process exits with 0 exactly when both videos were produced, and
\* with 1 when a dependency is missing or an encoder call failed.
C6_ExitCode ==
    pc = "exited" =>
        /\ exitCode = 0 <=> \A v \in Videos : call[v] = "returned"
        /\ (~kaleido \/ ~ffmpeg \/ \E v \in Videos : EncoderFailed(v))
              => exitCode = 1

\* C7: with kaleido or ffmpeg absent, once the dependency check is over main
\* has reported the missing dependency and returned 1, and the launch has
\* read no trajectory, called no generation, rendered no frame and invoked no
\* encoder; no step of such a launch changes a frame directory or a video.
C7_MissingDependencyStopsFirst ==
    /\ []((pc # "check" /\ (~kaleido \/ ~ffmpeg)) =>
            /\ error.kind = IF ~kaleido THEN "kaleido not installed"
                                       ELSE "ffmpeg not found"
            /\ ret = 1
            /\ df = NoDF
            /\ \A v \in Videos :
                  /\ call[v] = "not called"
                  /\ artifact[v] = EmptyFn
                  /\ encCalls[v] = 0)
    /\ [][(~kaleido \/ ~ffmpeg) => UNCHANGED << dirExists, files, output >>]_vars

C7_Witness ==
    /\ pc = "exited"
    /\ kaleido
    /\ ~ffmpeg
    /\ binExists
    /\ run = 2
    /\ dirExists["standard"]

\* C8: once the render loop of a video is over, this launch has written one
\* artifact per distinct timestep of the DataFrame, at the indices 0..n-1, and
\* the artifact at index i shows the timestep with exactly i distinct
\* timesteps below it; while the loop runs the same holds of the artifacts
\* written so far.
C8_ArtifactIsRankOfTimestep ==
    \A v \in Videos :
        /\ \A i \in DOMAIN artifact[v] :
              /\ artifact[v][i] \in DistinctTimes
              /\ Cardinality({ t \in DistinctTimes : t < artifact[v][i] }) = i
        /\ (cur = v /\ pc \in {"encode", "cleanup"}) =>
              DOMAIN artifact[v] = 0..(Cardinality(DistinctTimes) - 1)

C8_Witness ==
    /\ pc = "encode"
    /\ cur = "standard"
    /\ Column(df.rows, "time") = << 1, 1, 0, 0 >>
    /\ artifact["standard"] = [i \in 0..1 |-> i]

\* C9: when the render of the frame at index k raises, the error that ends
\* the launch carries k, and the frames written for the indices below k are
\* still in the directory.
C9_RenderFailureCarriesIndex ==
    error.kind = "RenderError" =>
        /\ call[cur] = "raised"
        /\ error.index = idx
        /\ \A i \in 0..(idx - 1) :
              i \in DOMAIN files[cur] /\ files[cur][i] = "this launch"

\* C10: once read_binary_simulation is over, the DataFrame came from the
\* binary file whenever that exists, from the CSV sibling when only that
\* exists, and when neither exists the launch ended with FileNotFoundError
\* and no DataFrame.
C10_ResolutionOrder ==
    (pc \notin {"check", "read"} /\ kaleido /\ ffmpeg) =>
        /\ binExists => df.src = "bin"
        /\ (~binExists /\ csvExists) => df.src = "csv"
        /\ (~binExists /\ ~csvExists) =>
              /\ df = NoDF
              /\ error.kind = "FileNotFoundError"
              /\ pc \in {"crashed", "exited"}

C10_Witness ==
    /\ pc = "estimate"
    /\ binExists
    /\ csvExists
    /\ df.src = "bin"
    /\ df.rows # << >>


\* ---- the readers (SpecReader)
\* the binary file of the input is the file as written, header included
AsWritten == input.kind = "binary" /\ input.stream = Encode(input.written)

\* the binary file of the input has its true header and ends before the last
\* frame the header declares is complete
CutShort ==
    /\ input.kind = "binary"
    /\ Len(input.stream) >= 2
    /\ Len(input.stream) < Len(Encode(input.written))
    /\ input.stream = SubSeq(Encode(input.written), 1, Len(input.stream))

\* the frame, and in it the timestep or array, at which a cut file ends
ShortAt ==
    LET per == 1 + 6 * input.written.np
        j == Len(input.stream) - 2
        r == j % per
    IN  [frame |-> j \div per,
         array |-> IF r = 0 THEN "timestep"
                   ELSE Arrays[((r - 1) \div input.written.np) + 1]]

\* C11: a binary file that ends before a declared frame's timestep or one of
\* its six arrays is complete makes read_binary_simulation fail with a
\* TruncatedData error that names the short frame and array; no trajectory is
\* returned.
C11_TruncationNamed ==
    (CutShort /\ result # Pending) =>
        /\ result.status = "raised"
        /\ result.kind = "TruncatedData"
        /\ result.frame = ShortAt.frame
        /\ result.array = ShortAt.array

\* what the returned rows say about the shape of a DataFrame: one block per
\* frame, in each block the identifiers 0..np-1 in order
ShapedAs(rows, np, nf) ==
    /\ np >= 0
    /\ nf >= 0
    /\ Len(rows) = nf * np
    /\ \A i \in DOMAIN rows : rows[i].Particles = (i - 1) % np

\* C12: a returned trajectory holds exactly the declared number of frames and
\* in each frame one row per particle identifier 0..particle_count-1, for
\* every header the binary reader accepts (zero and negative counts too) and
\* for the CSV reader (one row per identifier of the frame).
C12_DeclaredShape ==
    (result # Pending /\ result.status = "ok") =>
        IF input.kind = "binary"
        THEN ShapedAs(result.df.rows, input.stream[1], input.stream[2])
        ELSE { result.df.rows[i].Particles : i \in DOMAIN result.df.rows }
                 = 0..(Len(result.df.rows) - 1)

\* the rows a written trajectory decodes to: frame by frame, particle by
\* particle, each value under its own column
RowsOf(t) ==
    [i \in 1..(Len(t.ts) * t.np) |->
        LET f == (i - 1) \div t.np
            p == (i - 1) % t.np
        IN  [c \in Columns |->
                IF c = "Particles" THEN p
                ELSE IF c = "time" THEN t.ts[f + 1]
                ELSE Val(f, p, CHOOSE k \in 1..6 : Arrays[k] = c)]]

\* what a DataFrame gives back of the header and the timesteps: rows per
\* frame, frames, and the time of each frame in row order
FirstRows(rows) == { i \in DOMAIN rows : rows[i].Particles = 0 }
TimesInOrder(rows) ==
    [n \in 1..Cardinality(FirstRows(rows)) |->
        rows[CHOOSE i \in FirstRows(rows) :
                 Cardinality({ j \in FirstRows(rows) : j <= i }) = n].time]
CountsOf(rows) ==
    [np |-> Cardinality({ rows[i].Particles : i \in DOMAIN rows }),
     nf |-> Cardinality(FirstRows(rows))]

NumericSuffix(label) ==
    LET at == { i \in DOMAIN label :
                  \A j \in i..Len(label) : label[j] \in Digits }
    IN  IF at = {} THEN << >>
        ELSE RunFrom(label, CHOOSE a \in at : \A o \in at : a <= o)

\* the rows of a CSV file whose label holds no digit
NoNumber == { i \in DOMAIN input.cells : ~Extract(input.cells[i]).found }

\* C14: in a text "Particles" column every identifier becomes the numeric
\* suffix of its label; a label without a digit makes the read fail with a
\* MalformedRow error naming that row, and no trajectory is returned.
C14_SuffixOrMalformedRow ==
    (input.kind = "csv" /\ IsObject(input.cells) /\ result # Pending) =>
        IF NoNumber # {}
        THEN /\ result.status = "raised"
             /\ result.kind = "MalformedRow"
             /\ result.row \in NoNumber
        ELSE /\ result.status = "ok"
             /\ \A i \in DOMAIN input.cells :
                    NumericSuffix(input.cells[i]) # << >> =>
                        result.df.rows[i].Particles
                            = Decimal(NumericSuffix(input.cells[i]))

\* ---- the cylinder dimensions (SpecGeometry)
\* field i (from 0) of the first line, split on tabs as it stands in the
\* file, parses as a number
Parses(file, i) ==
    /\ Len(SplitOnly(file.line)) >= i + 1
    /\ SplitOnly(file.line)[i + 1].chars = "numeral"

\* the parameter file gives no dimensions: it is missing, its first line has
\* fewer than 8 tab-separated fields, or field 6 or field 7 is no number
Unusable(file) ==
    \/ ~file.exists
    \/ Len(SplitOnly(file.line)) < 8
    \/ ~Parses(file, 6)
    \/ ~Parses(file, 7)

\* C15: no parameter file makes the estimation fail.  A file that is missing,
\* has fewer than 8 tab-separated fields on its first line, or whose field 6
\* or 7 is no number only draws a warning and the radius is the data-derived
\* one; otherwise the radius is field 6 of the line.
C15_ParameterFileNeverFatal ==
    (input.kind = "geometry" /\ result # Pending) =>
        /\ result.status = "ok"
        /\ IF Unusable(input.file)
           THEN /\ result.warned
                /\ result.from = "data"
                /\ result.Wall = DataRadius(input.script, input.points)
           ELSE result.Wall = FromValue(SplitOnly(input.file.line)[7].value)

\* C16: on the data-derived path the radius is 1.1 times the largest |x| or
\* |y| of any row of the trajectory, in generate_mp4.py,
\* scripts/generate_mp4.py and generate_video.py alike.
C16_DataRadiusInEveryVariant ==
    (input.kind = "geometry" /\ result # Pending /\ result.from = "data") =>
        result.Wall = BoxRadius(input.points)

\* ---- the pipeline (Spec), continued
\* C17: the estimation of the dimensions fails exactly when the trajectory
\* has no rows: then the run stops with an EmptyTrajectory error and neither
\* video is entered (no frame directory, no render, no encoder call); a
\* trajectory with rows never fails the estimation.
C17_EstimationFailsIffEmpty ==
    (df.src # "none" /\ pc # "estimate") =>
        IF df.rows = << >>
        THEN /\ error.kind = "EmptyTrajectory"
             /\ \A v \in Videos : call[v] = "not called"
        ELSE error.kind \notin {"KeyError", "EmptyTrajectory"}

\* ---- the tracked particles (SpecSampler)
Sampled == input.kind = "sample" /\ result # Pending

C19_DistinctSubset ==
    Sampled =>
        /\ Range(result.tracked_particles) \subseteq all_particles(input.n)
        /\ \A i, j \in DOMAIN result.tracked_particles :
              i # j => result.tracked_particles[i] # result.tracked_particles[j]

C19_Witness ==
    /\ Sampled
    /\ Len(result.tracked_particles) >= 2
    /\ Range(result.tracked_particles) # all_particles(input.n)

\* C20: every tracked particle has a color, the i-th of the draw (from 0)
\* the one of hue 360 * i / num_tracked (in whole degrees) at saturation 70%
\* and lightness 50%, and no two tracked particles have the same color,
\* whatever the number of tracked particles.
C20_ColorsInjective ==
    Sampled =>
        LET tp == result.tracked_particles
            pc0 == result.particle_colors
        IN  /\ DOMAIN pc0 = Range(tp)
            /\ \A i \in DOMAIN tp : pc0[tp[i]] = Hsl(i - 1, Len(tp))
            /\ Cardinality({ pc0[p] : p \in DOMAIN pc0 }) = Cardinality(Range(tp))

\* C21: with no particle identifier to draw from, sampling fails with the
\* error that reports the empty population (numpy's ValueError "'a' cannot
\* be empty unless no samples are taken"): no selection is made, no tracking
\* frame is rendered and the encoder is not invoked for the tracking video.
C21_EmptyPopulationStops ==
    (call["tracking"] # "not called" /\ pc # "sample" /\ df.rows = << >>) =>
        /\ error.kind = "ValueError"
        /\ call["tracking"] = "raised"
        /\ pc \in {"crashed", "exited"}
        /\ tracked = << >>
        /\ artifact["tracking"] = EmptyFn
        /\ encCalls["tracking"] = 0

C21_Witness ==
    /\ df.rows = << >>
    /\ call["tracking"] = "raised"
    /\ call["standard"] = "returned"
    /\ error.kind = "ValueError"

\* C22: when the encoder is started for a video the output directory
\* exists, also when it was absent at the start of the run, and an encoder
\* that succeeds replaces whatever file was at the output path.
C22_OutputDirExistsAtEncode ==
    \A v \in Videos :
        /\ encCalls[v] > 0 => outDir
        /\ encRc[v] = 0 => output[v] = "this launch"

\* C23: a frame directory belongs to the one video-generation run that
\* created it: no other run writes a frame into it or deletes it, and the
\* two videos have different directories.
C23_ExclusiveOwnership ==
    /\ TempDir("standard") # TempDir("tracking")
    /\ \A v \in Videos :
          dirMaker[v] = "earlier launch" =>
              \A i \in DOMAIN files[v] : files[v][i] # "this launch"
    /\ [][\A v \in Videos :
              dirMaker[v] = "earlier launch" => dirExists'[v]]_vars
\* C24: once the trajectory is decoded it is not modified: sequencing,
\* sampling, rendering and encoding leave its rows, their stored order and
\* their values as they were read (times stored as 1, 0 still read 1, 0
\* after both videos).
C24_TrajectoryUnchanged ==
    [][(pc # "read" /\ run' = run) => df' = df]_vars

C24_Witness ==
    /\ Column(df.rows, "time") = << 1, 0 >>
    /\ timesteps = << 0, 1 >>
    /\ call["standard"] = "returned"
    /\ call["tracking"] = "returned"
\* C25: when the encoder is about to be invoked for a video, the frame
\* files in that video's directory are exactly those of indices 0 .. n - 1,
\* n the number of distinct timesteps of the current trajectory, and each
\* was written by the current launch, whatever earlier launches left behind.
C25_ExactFramesAtEncode ==
    \A v \in Videos :
        (pc = "encode" /\ cur = v) =>
            /\ DOMAIN files[v] = 0..(Len(timesteps) - 1)
            /\ \A i \in DOMAIN files[v] : files[v][i] = "this launch"
\* C26: the tracked particles are drawn once, before the first tracking
\* frame, and do not change afterwards; for every frame index the points
\* handed to the renderer are exactly the rows of that index's timestep
\* whose identifier is tracked, each with the color it got at sampling.
C26_FramePoints ==
    \A i \in DOMAIN scene["tracking"] :
        LET s == scene["tracking"][i]
        IN  /\ s.points = SelectSeq(df.rows,
                   LAMBDA r : /\ r.time = artifact["tracking"][i]
                              /\ r.Particles \in Range(tracked))
            /\ DOMAIN s.colors = DOMAIN s.points
            /\ \A j \in DOMAIN s.points :
                  \E k \in DOMAIN tracked :
                      /\ tracked[k] = s.points[j].Particles
                      /\ s.colors[j] = Hsl(k - 1, Len(tracked))

C26_DrawnOnce ==
    /\ (tracked' # tracked \/ particle_colors' # particle_colors) =>
           \/ run' # run
           \/ pc = "sample" /\ tracked = << >> /\ scene["tracking"] = EmptyFn
    /\ scene'["tracking"] # EmptyFn => tracked' # << >>

C26_SelectionFixed == [] C26_FramePoints /\ [][C26_DrawnOnce]_vars

C26_Witness ==
    /\ call["tracking"] = "returned"
    /\ Len(tracked) = 1
    /\ Cardinality(Range(Column(df.rows, "Particles"))) = 2
    /\ DOMAIN scene["tracking"] = 0..1
    /\ \A i \in 0..1 : Len(scene["tracking"][i].points) = 1
\* ---- the cylinder dimensions (SpecGeometry), continued
\* C27: generate_mp4.py and scripts/generate_mp4.py always render between
\* the smallest and the largest z of the trajectory, with or without a
\* height in the parameter file; generate_video.py alone renders between
\* -height and +height when the parameter file is valid.
C27_VerticalBounds ==
    (input.kind = "geometry" /\ result # Pending) =>
        LET params == read_parameters(input.file)
            zs == { p.z : p \in input.points }
        IN  IF input.script = "generate_video.py" /\ params.given
            THEN /\ result.height_min = 0 - params.height
                 /\ result.height_max = params.height
            ELSE /\ result.height_min = MinOf(zs)
                 /\ result.height_max = MaxOf(zs)

C27_Witness ==
    /\ input.kind = "geometry"
    /\ result # Pending
    /\ input.script = "scripts/generate_mp4.py"
    /\ read_parameters(input.file).given
    /\ result.from = "parameters"
    /\ result.height_max = MaxCoord
    /\ result.height_max # read_parameters(input.file).height
\* ---- the output-suppression wrapper (SpecStreams)
\* C28: when a suppress_stdout_stderr() block ends, by completion or by a
\* raised error, sys.stdout and sys.stderr are bound to the objects they
\* were bound to when the block was entered, for nested blocks and for
\* blocks run one after the other; outside every block they are the
\* streams the process started with.
C28_OutsideBlocks ==
    /\ blocks = << >> => << sys_stdout, sys_stderr >> = Original
    /\ blocks # << >> =>
          << blocks[1].old_stdout, blocks[1].old_stderr >> = Original
    /\ \A i \in DOMAIN blocks :
          i > 1 => /\ blocks[i].old_stdout \in {Devnull(blocks[i - 1].devnull), Other}
                   /\ blocks[i].old_stderr \in {Devnull(blocks[i - 1].devnull), Other}

C28_OnExit ==
    Len(blocks') < Len(blocks) =>
        /\ sys_stdout' = blocks[Len(blocks)].old_stdout
        /\ sys_stderr' = blocks[Len(blocks)].old_stderr
        /\ blocks' = SubSeq(blocks, 1, Len(blocks) - 1)

C28_StreamsRestored == [] C28_OutsideBlocks /\ [][C28_OnExit]_vars

C28_Witness ==
    /\ input.kind = "streams"
    /\ result # Pending
    /\ result.depth = 2
    /\ blocks = << >>
    /\ opened = 3
    /\ << sys_stdout, sys_stderr >> = Original

====
